---- MODULE Spec2Model ----
(***************************************************************************)
(* Model of the wheel-strategy PUT screener (MaBa98/Monitor).              *)
(*                                                                         *)
(* Two entry points are modelled:                                          *)
(*   Spec          one run of the Streamlit script main.py: sidebar        *)
(*                 inputs, empty-selection guard, load_data, no-data       *)
(*                 guard, screening loop, no-candidates guard, sort.       *)
(*   SpecProvider  one call of DataProvider.get_options_data(tickers) in   *)
(*                 each of the three source modes, one ticker per step,    *)
(*                 with the log of the provider calls it makes.            *)
(*                                                                         *)
(* Numbers are fixed point integers:                                       *)
(*   prices, strikes, premiums, bid/ask/last   cents          (1/100)      *)
(*   iv, hv_20, delta, theta                   thousandths    (1/1000)     *)
(*   gamma, AS                                 ten-thousandths (1/10000)   *)
(*   percentages (yield, POP, moneyness)       hundredths of a percent     *)
(* The float NaN and Python's None are the two reserved values NaN, None.  *)
(***************************************************************************)
EXTENDS Integers, Sequences, FiniteSets, TLC

\* ------------------------------------------------------------------------
\* Bounds of the model
\* ------------------------------------------------------------------------
MaxTickers == 2     \* longest ticker selection
MaxOpts == 2        \* longest option chain a provider returns for a ticker

\* ------------------------------------------------------------------------
\* Reserved values
\* ------------------------------------------------------------------------
NaN == -999999      \* float('nan'): pandas rolling(...).std() without a full window
None == -999998     \* Python None

IsNull(x) == x = NaN \/ x = None

\* ------------------------------------------------------------------------
\* Arithmetic helpers (fixed point)
\* ------------------------------------------------------------------------
Abs(x) == IF x < 0 THEN -x ELSE x

Min(a, b) == IF a < b THEN a ELSE b

Max(a, b) == IF a > b THEN a ELSE b

\* Rounding mutant: truncation instead of rounding.
RoundDivTrunc(n, d) == IF n >= 0 THEN n \div d ELSE -((-n) \div d)

\* round(n / d) for d > 0, ties to even, as Python's round() does.
RoundDiv(n, d) ==
    LET a == Abs(n)
        q == a \div d
        r == a % d
        up == (2 * r > d) \/ (2 * r = d /\ q % 2 = 1)
        m == IF up THEN q + 1 ELSE q
    IN  IF n < 0 THEN -m ELSE m

\* np.sqrt(dte / 365) in thousandths: integer square root of dte * 10^6 / 365.
RECURSIVE IsqrtBetween(_, _, _)
IsqrtBetween(n, lo, hi) ==
    IF lo >= hi THEN lo
    ELSE LET mid == (lo + hi + 1) \div 2
         IN  IF mid * mid <= n THEN IsqrtBetween(n, mid, hi)
             ELSE IsqrtBetween(n, lo, mid - 1)

\* Largest r with r * r <= n, for 0 <= n < 10^8.
Isqrt(n) == IsqrtBetween(n, 0, 10000)

SqrtYearFraction(dte) == Isqrt((dte * 1000000) \div 365)

\* e^(-n) in ten-thousandths for n = 0..9
ExpNegInt == <<10000, 3679, 1353, 498, 183, 67, 25, 9, 3, 1>>

\* Taylor series of e^f for 0 <= f < 1, f and the result in ten-thousandths.
RECURSIVE ExpTaylor(_, _, _, _)
ExpTaylor(f, term, n, acc) ==
    IF term = 0 \/ n > 12 THEN acc
    ELSE LET next == RoundDiv(term * f, 10000 * n)
         IN  ExpTaylor(f, next, n + 1, acc + next)

ExpFrac(f) == ExpTaylor(f, 10000, 1, 10000)

\* np.exp(-x) for x >= 0, x and the result in ten-thousandths.
ExpNeg(x) ==
    IF x >= 100000 THEN 0
    ELSE LET n == x \div 10000
             f == x % 10000
         IN  RoundDiv(RoundDiv(100000000, ExpFrac(f)) * ExpNegInt[n + 1], 10000)

\* Python truthiness of a number or None (NaN is truthy).
Truthy(x) == x # None /\ x # 0

\* ------------------------------------------------------------------------
\* Tickers and source modes
\* ------------------------------------------------------------------------
AvailableTickers == {"AAPL", "MSFT"}

SourceModes == {"real", "ib", "mock"}

Distinct(l) == \A i, j \in 1..Len(l) : i # j => l[i] # l[j]

\* Selections the sidebar can produce: lists of distinct tickers (the
\* multiselect has no duplicates, the manual input removes them).
TickerSelections ==
    UNION {{l \in [1..n -> AvailableTickers] : Distinct(l)} : n \in 0..MaxTickers}

\* ------------------------------------------------------------------------
\* yfinance_client.get_stock_data
\* ------------------------------------------------------------------------
HV_DEFAULT == 250    \* hv_20 = 0.25 when the history is too short

\* What Yahoo answers for one ticker: info prices, number of daily rows of
\* the 1-month history, the annualised std of its log returns, or an error.
YahooStockInputs ==
    { [currentPrice |-> 1000, previousClose |-> 990, histLen |-> 22, std |-> 300, raises |-> FALSE],
      [currentPrice |-> None, previousClose |-> 1000, histLen |-> 20, std |-> 0, raises |-> FALSE],
      [currentPrice |-> 1000, previousClose |-> 990, histLen |-> 10, std |-> 300, raises |-> FALSE],
      [currentPrice |-> None, previousClose |-> None, histLen |-> 22, std |-> 300, raises |-> FALSE],
      [currentPrice |-> 1000, previousClose |-> 990, histLen |-> 22, std |-> 300, raises |-> TRUE] }

\* Number of log-return samples of a history of n closes.
ReturnSamples(n) == IF n > 0 THEN n - 1 ELSE 0

\* Returns <<price, hv_20>>; every exception (also the formatting of a None
\* price in the log line) is caught and gives <<None, None>>.
get_stock_data(y) ==
    IF y.raises THEN <<None, None>>
    ELSE LET current_price == IF Truthy(y.currentPrice) THEN y.currentPrice
                              ELSE y.previousClose
             hv_20 == IF y.histLen >= 20 THEN y.std ELSE HV_DEFAULT
         IN  IF current_price = None THEN <<None, None>>
             ELSE <<current_price, hv_20>>

\* ------------------------------------------------------------------------
\* Live-quote option chain: get_options_data(ticker) and
\* calculate_greeks_approximation(strike, price, iv, dte), imported by
\* data_provider.py from yfinance_client
\* ------------------------------------------------------------------------
\* Subsequence of cat at the positions in S, in the order of cat.
RECURSIVE PickInOrder(_, _, _)
PickInOrder(cat, S, i) ==
    IF i > Len(cat) THEN <<>>
    ELSE (IF i \in S THEN <<cat[i]>> ELSE <<>>) \o PickInOrder(cat, S, i + 1)

\* Chains of at most n rows taken from a catalogue of rows.
Chains(cat, n) ==
    {PickInOrder(cat, S, 1) : S \in {T \in SUBSET (1..Len(cat)) : Cardinality(T) <= n}}

\* Rows of the DataFrame the live-quote chain returns (normalized shape of
\* the external interface: strike > 0, premium > 0, iv > 0, dte >= 0, ...).
YahooRows ==
    << [strike |-> 900, premium |-> 18, iv |-> 300, dte |-> 30, volume |-> 100,
        open_interest |-> 500, bid |-> 17, ask |-> 19, last |-> 18],
       [strike |-> 1000, premium |-> 20, iv |-> 300, dte |-> 30, volume |-> 250,
        open_interest |-> 900, bid |-> 19, ask |-> 21, last |-> 20],
       [strike |-> 950, premium |-> 10, iv |-> 350, dte |-> 45, volume |-> 0,
        open_interest |-> 40, bid |-> 9, ask |-> 11, last |-> 10],
       [strike |-> 902, premium |-> 18, iv |-> 300, dte |-> 30, volume |-> 10,
        open_interest |-> 60, bid |-> 17, ask |-> 19, last |-> 18] >>

\* get_options_data(ticker): raises, or returns an empty or a filled frame.
YahooChainOutcomes ==
    {[raises |-> TRUE, rows |-> <<>>]} \cup
    {[raises |-> FALSE, rows |-> c] : c \in Chains(YahooRows, MaxOpts)}

\* calculate_greeks_approximation(strike, underlying_price, iv, dte): PUT
\* greeks of the normalized shape (delta in [-1, 0], gamma >= 0, theta <= 0),
\* delta growing in size with the moneyness.
calculate_greeks_approximation(strike, underlying_price, iv, dte) ==
    LET root == SqrtYearFraction(dte)
        slope == RoundDiv(5000 * (strike - underlying_price), underlying_price)
    IN  [delta |-> -Max(50, Min(1000, 500 + slope)),
         gamma |-> IF root > 0 THEN RoundDiv(600000000, strike * root) ELSE 0,
         theta |-> IF dte > 0 THEN -RoundDiv(strike * iv, 1000 * dte) ELSE 0]

\* ------------------------------------------------------------------------
\* DataProvider: rows to option dicts, snapshots, the provider call log
\* ------------------------------------------------------------------------
\* option_dict built from a chain row and its greeks.
OptionDict(row, greeks) ==
    [strike |-> row.strike, premium |-> row.premium, iv |-> row.iv,
     delta |-> greeks.delta, gamma |-> greeks.gamma, theta |-> greeks.theta,
     volume |-> row.volume, open_interest |-> row.open_interest,
     dte |-> row.dte, bid |-> row.bid, ask |-> row.ask, last |-> row.last]

\* options_list: one option_dict per row of the frame, in row order.
OptionsList(rows, underlying_price) ==
    [i \in 1..Len(rows) |->
        OptionDict(rows[i],
                   calculate_greeks_approximation(rows[i].strike, underlying_price,
                                                  rows[i].iv, rows[i].dte))]

\* options_data[ticker] = {...}; the map is kept as the sequence of its
\* entries in insertion order.
Snapshot(ticker, underlying_price, hv_20, options) ==
    [ticker |-> ticker, underlying_price |-> underlying_price,
     hv_20 |-> hv_20, options |-> options]

\* One provider call: who was asked what for which ticker, whether it
\* yielded data, and how many return samples the volatility rests on.
Call(provider, kind, ticker, yielded, samples) ==
    [provider |-> provider, kind |-> kind, ticker |-> ticker,
     yielded |-> yielded, samples |-> samples]

YfStockCall(ticker, y) ==
    LET sd == get_stock_data(y)
    IN  Call("yf", "stock", ticker, sd[1] # None /\ sd[2] # None,
             ReturnSamples(y.histLen))

YfChainCall(ticker, c) ==
    Call("yf", "options", ticker, ~c.raises /\ c.rows # <<>>, 0)

\* Result of the loop body for one ticker: the calls made, the snapshot
\* stored (a sequence of 0 or 1 entries), whether an exception escaped.
Skip(calls) == [calls |-> calls, snap |-> <<>>, escaped |-> FALSE]

Store(calls, snapshot) == [calls |-> calls, snap |-> <<snapshot>>, escaped |-> FALSE]

\* Fault variant: the per-ticker handler is missing and the error escapes.
PropagateTickerError(calls) == [calls |-> calls, snap |-> <<>>, escaped |-> TRUE]

\* except Exception: st.error(...); continue
CatchTickerError(calls) == Skip(calls)

\* Loop body of _get_real_options_data for one ticker.
RealTicker(ticker, y, c) ==
    LET sd == get_stock_data(y)
        underlying_price == sd[1]
        hv_20 == sd[2]
        c1 == YfStockCall(ticker, y)
        c2 == YfChainCall(ticker, c)
    IN  IF underlying_price = None \/ hv_20 = None THEN Skip(<<c1>>)
        ELSE IF c.raises THEN CatchTickerError(<<c1, c2>>)
        ELSE IF c.rows = <<>> THEN Skip(<<c1, c2>>)
        ELSE Store(<<c1, c2>>,
                   Snapshot(ticker, underlying_price, hv_20,
                            OptionsList(c.rows, underlying_price)))

RealTickerOutcomes(ticker) ==
    {RealTicker(ticker, y, c) : y \in YahooStockInputs, c \in YahooChainOutcomes}

\* ------------------------------------------------------------------------
\* ib_client.get_ib_stock_data / get_ib_options_data
\* ------------------------------------------------------------------------
\* What the broker answers for the stock: whether connect() succeeds,
\* whether a request raises, last/bid/ask, number of daily bars and the
\* annualised std of the last 20 log returns (bid + ask is even here).
IBStockInputs ==
    { [connects |-> FALSE, raises |-> FALSE, last |-> 0, bid |-> 0, ask |-> 0, nbars |-> 0, std |-> 0],
      [connects |-> TRUE, raises |-> TRUE, last |-> 0, bid |-> 0, ask |-> 0, nbars |-> 0, std |-> 0],
      [connects |-> TRUE, raises |-> FALSE, last |-> 1000, bid |-> 990, ask |-> 1010, nbars |-> 250, std |-> 300],
      [connects |-> TRUE, raises |-> FALSE, last |-> 0, bid |-> 990, ask |-> 1010, nbars |-> 10, std |-> 300],
      [connects |-> TRUE, raises |-> FALSE, last |-> 1000, bid |-> 990, ask |-> 1010, nbars |-> 0, std |-> 0] }

\* log_returns.rolling(window=20).std().iloc[-1] * sqrt(252): the first log
\* return of n bars is NaN, so the last window is full only from 21 bars on.
RollingStd20(nbars, std) == IF nbars >= 21 THEN std ELSE NaN

get_ib_stock_data(b) ==
    IF ~b.connects THEN <<None, None>>
    ELSE IF b.raises THEN <<None, None>>
    ELSE LET current_price == IF Truthy(b.last) THEN b.last
                              ELSE (b.bid + b.ask) \div 2
             hv_20 == IF b.nbars > 0 THEN RollingStd20(b.nbars, b.std) ELSE None
         IN  <<current_price, hv_20>>

\* Raw PUT quotes of the broker, flattened over exchanges and expiries.
IBQuotes ==
    << [strike |-> 900, bid |-> 17, ask |-> 19, last |-> 18, volume |-> 100,
        impliedVolatility |-> 300, dte |-> 30],
       [strike |-> 950, bid |-> 0, ask |-> 0, last |-> 0, volume |-> 0,
        impliedVolatility |-> 300, dte |-> 30],
       [strike |-> 950, bid |-> 50, ask |-> -100, last |-> 0, volume |-> 0,
        impliedVolatility |-> 0, dte |-> 30],
       [strike |-> 1000, bid |-> 19, ask |-> 21, last |-> 20, volume |-> 40,
        impliedVolatility |-> 300, dte |-> 5] >>

IBChainInputs ==
    { [connects |-> FALSE, raises |-> FALSE, quotes |-> <<>>],
      [connects |-> TRUE, raises |-> TRUE, quotes |-> <<>>] } \cup
    {[connects |-> TRUE, raises |-> FALSE, quotes |-> c] : c \in Chains(IBQuotes, MaxOpts)}

\* if dte < 7: continue ... if ticker_data.bid and ticker_data.ask and ticker_data.bid > 0
IBQuoteKept(q) == q.dte >= 7 /\ Truthy(q.bid) /\ Truthy(q.ask) /\ q.bid > 0

\* put_data of a kept quote.
IBPutData(q) ==
    LET premium == (q.bid + q.ask) \div 2
    IN  [strike |-> q.strike, premium |-> premium,
         iv |-> IF Truthy(q.impliedVolatility) THEN q.impliedVolatility ELSE 200,
         bid |-> q.bid, ask |-> q.ask,
         last |-> IF Truthy(q.last) THEN q.last ELSE premium,
         volume |-> IF Truthy(q.volume) THEN q.volume ELSE 0,
         open_interest |-> 0, dte |-> q.dte]

\* Rows of the returned frame (<<>> is the empty frame).
get_ib_options_data(b) ==
    IF ~b.connects THEN <<>>
    ELSE IF b.raises THEN <<>>
    ELSE LET kept == SelectSeq(b.quotes, IBQuoteKept)
         IN  [i \in 1..Len(kept) |-> IBPutData(kept[i])]

IbStockCall(ticker, b) ==
    LET sd == get_ib_stock_data(b)
    IN  Call("ib", "stock", ticker, sd[1] # None /\ sd[2] # None,
             ReturnSamples(b.nbars))

IbChainCall(ticker, bo) ==
    Call("ib", "options", ticker, get_ib_options_data(bo) # <<>>, 0)

\* Rows the loop body of _get_ib_options_data ends up with.
IBRows(bo, c) ==
    IF get_ib_options_data(bo) # <<>> THEN get_ib_options_data(bo) ELSE c.rows

\* Fault variant: the live-quote provider is asked first and the broker
\* feed is asked again afterwards.
IBTickerRetry(ticker, b, y, bo, c) ==
    LET ysd == get_stock_data(y)
        bsd == get_ib_stock_data(b)
        sd == IF ysd[1] = None \/ ysd[2] = None THEN bsd ELSE ysd
        calls == <<YfStockCall(ticker, y), IbStockCall(ticker, b),
                   IbChainCall(ticker, bo), YfChainCall(ticker, c),
                   IbChainCall(ticker, bo)>>
        rows == IBRows(bo, c)
    IN  IF sd[1] = None \/ sd[2] = None \/ rows = <<>> THEN Skip(calls)
        ELSE Store(calls, Snapshot(ticker, sd[1], sd[2], OptionsList(rows, sd[1])))

\* Loop body of _get_ib_options_data for one ticker.
IBTicker(ticker, b, y, bo, c) ==
    LET bsd == get_ib_stock_data(b)
        fallbackStock == bsd[1] = None \/ bsd[2] = None
        sd == IF fallbackStock THEN get_stock_data(y) ELSE bsd
        stockCalls == IF fallbackStock
                      THEN <<IbStockCall(ticker, b), YfStockCall(ticker, y)>>
                      ELSE <<IbStockCall(ticker, b)>>
        ibRows == get_ib_options_data(bo)
        fallbackChain == ibRows = <<>>
        chainCalls == IF fallbackChain
                      THEN <<IbChainCall(ticker, bo), YfChainCall(ticker, c)>>
                      ELSE <<IbChainCall(ticker, bo)>>
        rows == IBRows(bo, c)
    IN  IF sd[1] = None \/ sd[2] = None THEN Skip(stockCalls)
        ELSE IF fallbackChain /\ c.raises THEN CatchTickerError(stockCalls \o chainCalls)
        ELSE IF rows = <<>> THEN Skip(stockCalls \o chainCalls)
        ELSE Store(stockCalls \o chainCalls,
                   Snapshot(ticker, sd[1], sd[2], OptionsList(rows, sd[1])))

IBTickerOutcomes(ticker) ==
    {IBTicker(ticker, b, y, bo, c) : b \in IBStockInputs, y \in YahooStockInputs,
                                     bo \in IBChainInputs, c \in YahooChainOutcomes}

\* ------------------------------------------------------------------------
\* mock_generator.generate_mock_data
\* ------------------------------------------------------------------------
\* np.exp(m) for a moneyness m in ten-thousandths, -10 < m < 1.
ExpSigned(m) == IF m < 0 THEN ExpNeg(-m) ELSE ExpFrac(m)

\* Fault variant: the ladder runs up to 1.2 x price.
MockStrikesWide(price) ==
    LET start == (85 * price) \div 100
        n == (35 * price + 9999) \div 10000
    IN  [i \in 1..n |-> start + 100 * (i - 1)]

\* np.arange(price * 0.85, price * 1.02, 1.0), in cents.
MockStrikes(price) ==
    LET start == (85 * price) \div 100
        n == (17 * price + 9999) \div 10000
    IN  [i \in 1..n |-> start + 100 * (i - 1)]

\* np.random.randint(low, high): an integer from low (inclusive) to high
\* (exclusive).
RandInt(low, high) == low..(high - 1)

\* dte = np.random.randint(18, 40)
MockDteValues == RandInt(18, 40)

\* Smallest and largest element of a finite set of integers.
MinOf(S) == CHOOSE x \in S : \A y \in S : x <= y
MaxOf(S) == CHOOSE x \in S : \A y \in S : x >= y

\* The random draws of one option: randint(18, 40), uniform(0.05, 0.15),
\* two uniform(0.8, 1.2) factors, randint(50, 2000), randint(200, 10000);
\* the two ends of each range.
MockDraws ==
    { [dte |-> MinOf(MockDteValues), jitter |-> 50, gammaFactor |-> 800,
       thetaFactor |-> 800, volume |-> MinOf(RandInt(50, 2000)),
       open_interest |-> MinOf(RandInt(200, 10000))],
      [dte |-> MaxOf(MockDteValues), jitter |-> 149, gammaFactor |-> 1199,
       thetaFactor |-> 1199, volume |-> MaxOf(RandInt(50, 2000)),
       open_interest |-> MaxOf(RandInt(200, 10000))] }

\* Body of the strike loop: the option generated for one strike.
MockOption(strike, underlying_price, hv_20, d) ==
    LET iv == hv_20 + d.jitter
        moneyness == RoundDiv((strike - underlying_price) * 10000, underlying_price)
        root == SqrtYearFraction(d.dte)
        base == RoundDiv(strike * ExpSigned(moneyness), 10000)
        \* premium before rounding, in thousandths of a cent
        raw == RoundDiv(RoundDiv(base * 15 * root, 10) * iv, 100000)
        premium == Max(5000, raw)
        delta == Max(50, Min(550, 500 + RoundDiv(5000 * (strike - underlying_price),
                                                   underlying_price)))
        gamma == RoundDiv(600000 * d.gammaFactor, strike * root)
        theta == -RoundDiv(premium * d.thetaFactor, 100000 * d.dte)
    IN  [strike |-> strike, premium |-> RoundDiv(premium, 1000), iv |-> iv,
         delta |-> delta, gamma |-> gamma, theta |-> theta,
         volume |-> d.volume, open_interest |-> d.open_interest, dte |-> d.dte,
         bid |-> RoundDiv(premium * 99, 100000),
         ask |-> RoundDiv(premium * 101, 100000),
         last |-> RoundDiv(premium, 1000)]

\* mock_data[ticker] for a ticker of the price map; ds holds the draws of
\* each strike of the ladder.
MockSnapshot(ticker, underlying_price, hv_20, ds) ==
    LET strikes == MockStrikes(underlying_price)
    IN  Snapshot(ticker, underlying_price, hv_20,
                 [i \in 1..Len(strikes) |->
                     MockOption(strikes[i], underlying_price, hv_20, ds[i])])

MockDrawChoices(underlying_price) ==
    [1..Len(MockStrikes(underlying_price)) -> MockDraws]

\* Entry of price_map for a ticker (a sequence of 0 or 1 entries):
\* if price is not None and hv_20 is not None: price_map[ticker] = {...}
PriceMapEntry(ticker, y) ==
    LET sd == get_stock_data(y)
    IN  IF sd[1] # None /\ sd[2] # None
        THEN <<[ticker |-> ticker, price |-> sd[1], hv_20 |-> sd[2]]>>
        ELSE <<>>

\* Entries of a keyed sequence for one ticker.
Lookup(map, ticker) == SelectSeq(map, LAMBDA e : e.ticker = ticker)

\* Body of the ticker loop of generate_mock_data: a KeyError for a ticker
\* missing from the price map is caught and the ticker skipped.
MockTickerSnaps(ticker, price_map) ==
    LET found == Lookup(price_map, ticker)
    IN  IF found = <<>> THEN {<<>>}
        ELSE {<<MockSnapshot(ticker, found[1].price, found[1].hv_20, ds)>>
                 : ds \in MockDrawChoices(found[1].price)}

\* ------------------------------------------------------------------------
\* core/calculations.calculate_metrics
\* ------------------------------------------------------------------------
Infinity == 2000000000    \* np.inf

\* Fault variant: abs() is missing and the score takes the sign of delta.
assignment_score_signed(iv, hv_20, delta, decay) ==
    IF hv_20 > 0
    THEN (IF delta < 0 THEN -1 ELSE 1) *
         RoundDiv(RoundDiv(iv * Abs(delta) * 10, hv_20) * ExpNeg(decay), 10000)
    ELSE 0

\* (iv / hv_20) * abs(delta) * np.exp(-k_as_param * abs(moneyness)) if hv_20 > 0 else 0
\* in ten-thousandths; decay is k * |moneyness| in ten-thousandths.
assignment_score(iv, hv_20, delta, decay) ==
    IF hv_20 > 0
    THEN RoundDiv(RoundDiv(iv * Abs(delta) * 10, hv_20) * ExpNeg(decay), 10000)
    ELSE 0

\* underlying_price * iv * np.sqrt(dte / 365), in cents
expected_move(underlying_price, iv, dte) ==
    RoundDiv(RoundDiv(underlying_price * iv, 1000) * SqrtYearFraction(dte), 1000)

\* abs(delta) + (gamma * expected_move * 0.5), in ten-thousandths
pop_before_clamp(delta, gamma, move) ==
    Abs(delta) * 10 + RoundDiv(gamma * move, 200)

\* Fault variant: the clamp is missing.
pop_unclamped(delta, gamma, move) == pop_before_clamp(delta, gamma, move)

\* pop = min(pop, 1.0)
pop(delta, gamma, move) == Min(pop_before_clamp(delta, gamma, move), 10000)

\* Fault variant: the quotient is taken whenever it is defined.
return_on_risk_unguarded(strike, premium) ==
    IF strike - premium > 0 THEN RoundDiv(premium * 10000, strike - premium)
    ELSE IF strike - premium < 0 THEN -RoundDiv(premium * 10000, premium - strike)
    ELSE Infinity

\* (premium / (strike - premium)) * 100 if (strike - premium) > 0 else np.inf
return_on_risk(strike, premium) ==
    IF strike - premium > 0 THEN RoundDiv(premium * 10000, strike - premium)
    ELSE Infinity

\* Fault variant: the breakeven is rebuilt from the rounded yield.
breakeven_from_yield(strike, premium) ==
    strike - RoundDiv(strike * RoundDiv(premium * 10000, strike), 10000)

\* breakeven = strike - premium ... round(breakeven, 2): strike and premium
\* are whole cents, so is their difference.
breakeven(strike, premium) == strike - premium

\* Keys and values are those of the returned dict; rounded values are in
\* units of the last kept decimal (2 places for %, 4 for AS, 3 for theta).
calculate_metrics(option_data, underlying_price, k_as_param) ==
    LET strike == option_data.strike
        premium == option_data.premium
        iv == option_data.iv
        delta == option_data.delta
        gamma == option_data.gamma
        theta == option_data.theta
        dte == option_data.dte
        hv_20 == option_data.hv_20
        \* k * |moneyness| in ten-thousandths
        decay == (k_as_param * Abs(strike - underlying_price) * 10000) \div underlying_price
        move == expected_move(underlying_price, iv, dte)
    IN  ("Premium Yield %" :> RoundDiv(premium * 10000, strike)) @@
        ("AS" :> assignment_score(iv, hv_20, delta, decay)) @@
        ("POP %" :> pop(delta, gamma, move)) @@
        ("Moneyness %" :> RoundDiv((strike - underlying_price) * 10000, underlying_price)) @@
        ("Expected PnL" :> RoundDiv(premium * (1000 - Abs(delta)), 1000)) @@
        ("Return on Risk %" :> return_on_risk(strike, premium)) @@
        ("Breakeven" :> breakeven(strike, premium)) @@
        ("Theta Daily" :> Abs(theta)) @@
        ("Strike" :> strike) @@
        ("DTE" :> dte) @@
        ("Premium" :> premium) @@
        ("IV" :> iv)

\* ------------------------------------------------------------------------
\* main.py: sidebar inputs
\* ------------------------------------------------------------------------
SortFields == {"Premium Yield %", "AS", "POP %", "Moneyness %"}

\* Slider positions: min_yield in 0.01 %, max_dte in days, max_delta in
\* thousandths, k_param.
FilterChoices ==
    { [min_yield |-> 50, max_dte |-> 35, max_delta |-> 400, k_param |-> 10],
      [min_yield |-> 200, max_dte |-> 60, max_delta |-> 400, k_param |-> 5],
      [min_yield |-> 50, max_dte |-> 35, max_delta |-> 200, k_param |-> 20],
      [min_yield |-> 0, max_dte |-> 60, max_delta |-> 600, k_param |-> 10] }

\* Sources the sidebar radio offers.
SidebarSources == {"real", "mock"}

\* ------------------------------------------------------------------------
\* main.py: load_data -> DataProvider(data_source).get_options_data(tickers)
\* ------------------------------------------------------------------------
\* Snapshots (0 or 1) one ticker can contribute to the returned map.
TickerSnaps(ticker, source) ==
    IF source = "real" THEN {o.snap : o \in RealTickerOutcomes(ticker)}
    ELSE UNION {MockTickerSnaps(ticker, PriceMapEntry(ticker, y)) : y \in YahooStockInputs}

\* Maps get_options_data can return for a ticker list (sidebar sources).
RECURSIVE ProviderResults(_, _)
ProviderResults(tickers, source) ==
    IF tickers = <<>> THEN {<<>>}
    ELSE {s \o r : s \in TickerSnaps(Head(tickers), source),
                   r \in ProviderResults(Tail(tickers), source)}

\* ------------------------------------------------------------------------
\* main.py: screening loop and sort
\* ------------------------------------------------------------------------
\* option['hv_20'] = hv_20
WithHv(option, hv_20) == ("hv_20" :> hv_20) @@ option

\* Fault variant: the delta gate compares the signed delta.
DeltaGateSigned(option, max_delta) == option.delta >= max_delta

\* if abs(option['delta']) <= max_delta
DeltaGate(option, max_delta) == Abs(option.delta) <= max_delta

\* Fault variant: the DTE test is dropped.
YieldGateOnly(row, min_yield, max_dte) == row["Premium Yield %"] >= min_yield

\* if row['Premium Yield %'] >= min_yield and row['DTE'] <= max_dte
YieldDteGate(row, min_yield, max_dte) ==
    row["Premium Yield %"] >= min_yield /\ row["DTE"] <= max_dte

\* row = {'Ticker': ..., 'Sottostante': ..., 'HV20': ..., **option, **metrics}
Row(ticker, underlying_price, hv_20, option, metrics) ==
    metrics @@ option @@
    ("Ticker" :> ticker) @@ ("Sottostante" :> underlying_price) @@ ("HV20" :> hv_20)

\* Rows appended for one option: <<row>> or <<>>.
ScreenOption(ticker, data, option, f) ==
    LET opt == WithHv(option, data.hv_20)
        metrics == calculate_metrics(opt, data.underlying_price, f.k_param)
        row == Row(ticker, data.underlying_price, data.hv_20, opt, metrics)
    IN  IF DeltaGate(opt, f.max_delta) /\ YieldDteGate(row, f.min_yield, f.max_dte)
        THEN <<row>> ELSE <<>>

RECURSIVE ScreenOptions(_, _, _, _)
ScreenOptions(ticker, data, options, f) ==
    IF options = <<>> THEN <<>>
    ELSE ScreenOption(ticker, data, Head(options), f) \o
         ScreenOptions(ticker, data, Tail(options), f)

\* all_options after the loop over options_data.items()
RECURSIVE ScreenAll(_, _)
ScreenAll(map, f) ==
    IF map = <<>> THEN <<>>
    ELSE ScreenOptions(Head(map).ticker, Head(map), Head(map).options, f) \o
         ScreenAll(Tail(map), f)

\* The map after the loop: every option dict has gained the key hv_20.
MapAfterScreening(map) ==
    [i \in 1..Len(map) |->
        [map[i] EXCEPT !.options =
            [j \in 1..Len(map[i].options) |-> WithHv(map[i].options[j], map[i].hv_20)]]]

\* Number of options in the map (one calculate_metrics call each).
RECURSIVE CountOptions(_)
CountOptions(map) ==
    IF map = <<>> THEN 0 ELSE Len(Head(map).options) + CountOptions(Tail(map))

\* rows is ordered by the column: ascending or descending.
Ordered(rows, by, ascending) ==
    \A i \in 1..Len(rows) - 1 :
        IF ascending THEN rows[i][by] <= rows[i + 1][by]
        ELSE rows[i][by] >= rows[i + 1][by]

\* Fault variant: the direction flag is ignored and the sort is ascending.
SortValuesAscendingOnly(rows, by, ascending) ==
    {[i \in 1..Len(rows) |-> rows[p[i]]] : p \in
        {q \in Permutations(1..Len(rows)) :
            Ordered([i \in 1..Len(rows) |-> rows[q[i]]], by, TRUE)}}

\* pd.DataFrame(rows).sort_values(by=by, ascending=ascending).reset_index(drop=True)
\* with the default kind='quicksort', which is not a stable sort: every
\* ordered arrangement of the rows is a possible result.
SortValues(rows, by, ascending) ==
    {[i \in 1..Len(rows) |-> rows[p[i]]] : p \in
        {q \in Permutations(1..Len(rows)) :
            Ordered([i \in 1..Len(rows) |-> rows[q[i]]], by, ascending)}}

\* ------------------------------------------------------------------------
\* State
\* ------------------------------------------------------------------------
VARIABLES
    selected_tickers,   \* the ticker list (sidebar selection / tickers argument)
    data_source,        \* 'real', 'ib' or 'mock' (or an unsupported value)
    filters,            \* min_yield, max_dte, max_delta, k_param
    sort_by,            \* selectbox "Ordina per"
    sort_ascending,     \* checkbox "Ordinamento crescente"
    pc,                 \* position of the script run of main.py
    options_data,       \* ticker -> snapshot, as the sequence of its entries
    all_options,        \* rows appended by the screening loop
    df,                 \* the sorted candidate table
    message,            \* the st.warning / st.error shown before st.stop()
    loadCalls,          \* number of load_data calls of the run
    metricsCalls,       \* number of calculate_metrics calls of the run
    ppc,                \* position inside DataProvider.get_options_data
    method,             \* the _get_*_options_data method that is running
    idx,                \* index of the next ticker of the running loop
    price_map,          \* price_map of _get_mock_options_data
    calls,              \* log of the provider calls made so far
    set_source_log,     \* the set_data_source calls made on the provider
    metricsLog,         \* log of the calculate_metrics calls of the engine runs
    selected_option,    \* st.session_state.selected_option: <<>> (None) or <<row>>
    selected_option_index,  \* st.session_state.selected_option_index
    comparison_list,    \* st.session_state.comparison_list
    direction_touched,  \* the user has clicked the direction checkbox
    run_status,         \* how the last script run of the session ended
    last_event,         \* the user event that started the last script run
    ib_call,            \* function and broker answers of the running IB call
    ib_pc,              \* position inside get_ib_stock_data / get_ib_options_data
    ib_i,               \* index of the next quote of the contract loop
    ib_connected,       \* IBClient.connected
    ib_result           \* value the IB call returned

mainVars == <<filters, sort_by, sort_ascending, pc, all_options, df, message,
              loadCalls, metricsCalls>>

providerVars == <<ppc, method, idx, price_map, calls, set_source_log>>

sessionVars == <<selected_option, selected_option_index, comparison_list,
                 direction_touched, run_status, last_event>>

ibVars == <<ib_call, ib_pc, ib_i, ib_connected, ib_result>>

vars == <<selected_tickers, data_source, options_data, mainVars, providerVars,
          metricsLog, sessionVars, ibVars>>

\* ------------------------------------------------------------------------
\* Spec: one run of the script main.py
\* ------------------------------------------------------------------------
Init ==
    /\ selected_tickers \in TickerSelections
    /\ data_source \in SidebarSources
    /\ filters \in FilterChoices
    /\ sort_by \in SortFields
    /\ sort_ascending \in BOOLEAN
    /\ pc = "guard_selection"
    /\ options_data = <<>>
    /\ all_options = <<>>
    /\ df = <<>>
    /\ message = "none"
    /\ loadCalls = 0
    /\ metricsCalls = 0
    /\ ppc = "idle"
    /\ method = "none"
    /\ idx = 1
    /\ price_map = <<>>
    /\ calls = <<>>
    /\ metricsLog = <<>>
    /\ set_source_log = <<>>
    /\ selected_option = <<>>
    /\ selected_option_index = None
    /\ comparison_list = <<>>
    /\ direction_touched = FALSE
    /\ run_status = "none"
    /\ last_event = "none"
    /\ ib_call = <<>>
    /\ ib_pc = "idle"
    /\ ib_i = 1
    /\ ib_connected = FALSE
    /\ ib_result = <<>>

\* Fault variant: the guard is missing and the run goes on to load_data.
NoSelectionGuard ==
    /\ pc = "guard_selection"
    /\ pc' = "load"
    /\ UNCHANGED <<selected_tickers, data_source, options_data, filters, sort_by,
                   sort_ascending, all_options, df, message, loadCalls,
                   metricsCalls, providerVars, metricsLog, sessionVars,
                   ibVars>>

\* if not selected_tickers: st.warning(...); st.stop()
EmptySelectionGuard ==
    /\ pc = "guard_selection"
    /\ IF selected_tickers = <<>>
       THEN message' = "select_ticker" /\ pc' = "stopped"
       ELSE message' = message /\ pc' = "load"
    /\ UNCHANGED <<selected_tickers, data_source, options_data, filters, sort_by,
                   sort_ascending, all_options, df, loadCalls, metricsCalls,
                   providerVars, metricsLog, sessionVars,
                   ibVars>>

\* options_data = load_data(selected_tickers, data_source)
LoadData ==
    /\ pc = "load"
    /\ options_data' \in ProviderResults(selected_tickers, data_source)
    /\ loadCalls' = loadCalls + 1
    /\ pc' = "guard_data"
    /\ UNCHANGED <<selected_tickers, data_source, filters, sort_by, sort_ascending,
                   all_options, df, message, metricsCalls, providerVars, metricsLog, sessionVars,
                   ibVars>>

\* Fault variant: both empty outcomes show the same message.
NoDataGuardSameMessage ==
    /\ pc = "guard_data"
    /\ IF options_data = <<>>
       THEN message' = "no_candidates" /\ pc' = "stopped"
       ELSE message' = message /\ pc' = "screen"
    /\ UNCHANGED <<selected_tickers, data_source, options_data, filters, sort_by,
                   sort_ascending, all_options, df, loadCalls, metricsCalls,
                   providerVars, metricsLog, sessionVars,
                   ibVars>>

\* if not options_data: st.error(...); st.stop()
NoDataGuard ==
    /\ pc = "guard_data"
    /\ IF options_data = <<>>
       THEN message' = "no_data" /\ pc' = "stopped"
       ELSE message' = message /\ pc' = "screen"
    /\ UNCHANGED <<selected_tickers, data_source, options_data, filters, sort_by,
                   sort_ascending, all_options, df, loadCalls, metricsCalls,
                   providerVars, metricsLog, sessionVars,
                   ibVars>>

\* for ticker, data in options_data.items(): for option in data['options']: ...
ScreeningLoop ==
    /\ pc = "screen"
    /\ all_options' = ScreenAll(options_data, filters)
    /\ options_data' = MapAfterScreening(options_data)
    /\ metricsCalls' = metricsCalls + CountOptions(options_data)
    /\ pc' = "guard_candidates"
    /\ UNCHANGED <<selected_tickers, data_source, filters, sort_by, sort_ascending,
                   df, message, loadCalls, providerVars, metricsLog, sessionVars,
                   ibVars>>

\* if not all_options: st.warning(...); st.stop()
NoCandidatesGuard ==
    /\ pc = "guard_candidates"
    /\ IF all_options = <<>>
       THEN message' = "no_candidates" /\ pc' = "stopped"
       ELSE message' = message /\ pc' = "sort"
    /\ UNCHANGED <<selected_tickers, data_source, options_data, filters, sort_by,
                   sort_ascending, all_options, df, loadCalls, metricsCalls,
                   providerVars, metricsLog, sessionVars,
                   ibVars>>

\* df = pd.DataFrame(all_options).sort_values(...).reset_index(drop=True)
SortTable ==
    /\ pc = "sort"
    /\ df' \in SortValues(all_options, sort_by, sort_ascending)
    /\ pc' = "render"
    /\ UNCHANGED <<selected_tickers, data_source, options_data, filters, sort_by,
                   sort_ascending, all_options, message, loadCalls, metricsCalls,
                   providerVars, metricsLog, sessionVars,
                   ibVars>>

Next ==
    \/ EmptySelectionGuard
    \/ LoadData
    \/ NoDataGuard
    \/ ScreeningLoop
    \/ NoCandidatesGuard
    \/ SortTable

Spec == Init /\ [][Next]_vars

\* ------------------------------------------------------------------------
\* SpecProvider: one call of DataProvider.get_options_data(tickers)
\* ------------------------------------------------------------------------
InitProvider ==
    /\ selected_tickers \in TickerSelections
    /\ data_source \in SourceModes \cup {"csv"}
    /\ filters \in {CHOOSE f \in FilterChoices : f.k_param = 10 /\ f.min_yield = 50}
    /\ sort_by = "Premium Yield %"
    /\ sort_ascending = FALSE
    /\ pc = "idle"
    /\ options_data = <<>>
    /\ all_options = <<>>
    /\ df = <<>>
    /\ message = "none"
    /\ loadCalls = 0
    /\ metricsCalls = 0
    /\ ppc = "dispatch"
    /\ method = "none"
    /\ idx = 1
    /\ price_map = <<>>
    /\ calls = <<>>
    /\ metricsLog = <<>>
    /\ set_source_log = <<>>
    /\ selected_option = <<>>
    /\ selected_option_index = None
    /\ comparison_list = <<>>
    /\ direction_touched = FALSE
    /\ run_status = "none"
    /\ last_event = "none"
    /\ ib_call = <<>>
    /\ ib_pc = "idle"
    /\ ib_i = 1
    /\ ib_connected = FALSE
    /\ ib_result = <<>>

\* get_options_data: dispatch on self.data_source, ValueError otherwise.
Dispatch ==
    /\ ppc = "dispatch"
    /\ IF data_source = "real" THEN method' = "real" /\ ppc' = "loop"
       ELSE IF data_source = "ib" THEN method' = "ib" /\ ppc' = "ib_setup"
       ELSE IF data_source = "mock" THEN method' = "mock" /\ ppc' = "mock_prices"
       ELSE method' = method /\ ppc' = "raised"
    /\ UNCHANGED <<selected_tickers, data_source, options_data, mainVars, metricsLog, sessionVars,
                   ibVars, set_source_log, idx,
                   price_map, calls>>

\* _get_ib_options_data before its loop: event loop set-up and the import
\* of src.data.ib_client; an ImportError or any other exception hands the
\* whole ticker list to _get_real_options_data.
IbSetup ==
    /\ ppc = "ib_setup"
    /\ \E ok \in BOOLEAN : method' = IF ok THEN "ib" ELSE "real"
    /\ ppc' = "loop"
    /\ UNCHANGED <<selected_tickers, data_source, options_data, mainVars, metricsLog, sessionVars,
                   ibVars, set_source_log, idx,
                   price_map, calls>>

\* One iteration of "for ticker in tickers" of _get_real_options_data.
RealLoopStep ==
    /\ ppc = "loop" /\ method = "real" /\ idx <= Len(selected_tickers)
    /\ \E o \in RealTickerOutcomes(selected_tickers[idx]) :
          /\ calls' = calls \o o.calls
          /\ options_data' = options_data \o o.snap
          /\ IF o.escaped THEN ppc' = "raised" /\ idx' = idx
             ELSE ppc' = ppc /\ idx' = idx + 1
    /\ UNCHANGED <<selected_tickers, data_source, mainVars, metricsLog, sessionVars,
                   ibVars, set_source_log, method, price_map>>

\* One iteration of "for ticker in tickers" of _get_ib_options_data.
IbLoopStep ==
    /\ ppc = "loop" /\ method = "ib" /\ idx <= Len(selected_tickers)
    /\ \E o \in IBTickerOutcomes(selected_tickers[idx]) :
          /\ calls' = calls \o o.calls
          /\ options_data' = options_data \o o.snap
          /\ IF o.escaped THEN ppc' = "raised" /\ idx' = idx
             ELSE ppc' = ppc /\ idx' = idx + 1
    /\ UNCHANGED <<selected_tickers, data_source, mainVars, metricsLog, sessionVars,
                   ibVars, set_source_log, method, price_map>>

\* return options_data
LoopReturn ==
    /\ ppc = "loop" /\ idx > Len(selected_tickers)
    /\ ppc' = "done"
    /\ UNCHANGED <<selected_tickers, data_source, options_data, mainVars, metricsLog, sessionVars,
                   ibVars, set_source_log, method,
                   idx, price_map, calls>>

\* One iteration of the price_map loop of _get_mock_options_data.
MockPriceStep ==
    /\ ppc = "mock_prices" /\ idx <= Len(selected_tickers)
    /\ \E y \in YahooStockInputs :
          /\ price_map' = price_map \o PriceMapEntry(selected_tickers[idx], y)
          /\ calls' = Append(calls, YfStockCall(selected_tickers[idx], y))
    /\ idx' = idx + 1
    /\ UNCHANGED <<selected_tickers, data_source, options_data, mainVars, metricsLog, sessionVars,
                   ibVars, set_source_log, ppc, method>>

\* return generate_mock_data(tickers, price_map): entering the generator
MockGenerateCall ==
    /\ ppc = "mock_prices" /\ idx > Len(selected_tickers)
    /\ ppc' = "mock_generate"
    /\ idx' = 1
    /\ UNCHANGED <<selected_tickers, data_source, options_data, mainVars, metricsLog, sessionVars,
                   ibVars, set_source_log, method,
                   price_map, calls>>

\* One iteration of "for ticker in tickers" of generate_mock_data.
MockGenerateStep ==
    /\ ppc = "mock_generate" /\ idx <= Len(selected_tickers)
    /\ \E snap \in MockTickerSnaps(selected_tickers[idx], price_map) :
          options_data' = options_data \o snap
    /\ idx' = idx + 1
    /\ UNCHANGED <<selected_tickers, data_source, mainVars, metricsLog, sessionVars,
                   ibVars, set_source_log, ppc, method, price_map, calls>>

\* return mock_data
MockReturn ==
    /\ ppc = "mock_generate" /\ idx > Len(selected_tickers)
    /\ ppc' = "done"
    /\ UNCHANGED <<selected_tickers, data_source, options_data, mainVars, metricsLog, sessionVars,
                   ibVars, set_source_log, method,
                   idx, price_map, calls>>

NextProvider ==
    \/ Dispatch
    \/ IbSetup
    \/ RealLoopStep
    \/ IbLoopStep
    \/ LoopReturn
    \/ MockPriceStep
    \/ MockGenerateCall
    \/ MockGenerateStep
    \/ MockReturn

SpecProvider == InitProvider /\ [][NextProvider]_vars

\* ------------------------------------------------------------------------
\* SpecMetrics: a series of calculate_metrics calls
\* ------------------------------------------------------------------------
MaxCalls == 3

\* An option dict as the screening loop passes it (hv_20 included).
MetricOption(strike, premium, iv, delta, gamma, theta, dte, hv_20) ==
    [strike |-> strike, premium |-> premium, iv |-> iv, delta |-> delta,
     gamma |-> gamma, theta |-> theta, dte |-> dte, hv_20 |-> hv_20,
     volume |-> 100, open_interest |-> 500,
     bid |-> premium, ask |-> premium, last |-> premium]

\* Arguments of the calls: an at-the-money contract, the same without
\* volatility history, strike = premium, strike < premium, a contract whose
\* second-order term exceeds 100 %, an out-of-the-money contract, an
\* expiring contract, a deep contract without volatility history and a
\* contract 0.01 % out of the money with a low score.
MetricInputs ==
    { [option |-> MetricOption(10000, 200, 300, -250, 200, -50, 30, 250),
       underlying_price |-> 10000],
      [option |-> MetricOption(10000, 200, 300, -250, 200, -50, 30, 0),
       underlying_price |-> 10000],
      [option |-> MetricOption(10000, 10000, 300, -250, 200, -50, 30, 250),
       underlying_price |-> 10000],
      [option |-> MetricOption(9000, 9500, 450, -400, 150, -80, 20, 300),
       underlying_price |-> 10000],
      [option |-> MetricOption(10000, 400, 600, -1000, 30000, -90, 60, 250),
       underlying_price |-> 9500],
      [option |-> MetricOption(9000, 150, 350, -100, 100, -20, 45, 300),
       underlying_price |-> 10000],
      [option |-> MetricOption(10000, 5, 300, -500, 0, -5, 0, 250),
       underlying_price |-> 10000],
      [option |-> MetricOption(11000, 1100, 900, -1000, 50, -70, 30, 0),
       underlying_price |-> 10000],
      [option |-> MetricOption(30000, 155, 120, -50, 100, -20, 30, 300),
       underlying_price |-> 29997] }

\* Positions of the slider of the parameter k.
KParams == {f.k_param : f \in FilterChoices}

InitMetrics ==
    /\ selected_tickers = <<>>
    /\ data_source = "real"
    /\ filters \in {CHOOSE f \in FilterChoices : f.k_param = 10 /\ f.min_yield = 50}
    /\ sort_by = "Premium Yield %"
    /\ sort_ascending = FALSE
    /\ pc = "idle"
    /\ options_data = <<>>
    /\ all_options = <<>>
    /\ df = <<>>
    /\ message = "none"
    /\ loadCalls = 0
    /\ metricsCalls = 0
    /\ ppc = "idle"
    /\ method = "none"
    /\ idx = 1
    /\ price_map = <<>>
    /\ calls = <<>>
    /\ metricsLog = <<>>
    /\ set_source_log = <<>>
    /\ selected_option = <<>>
    /\ selected_option_index = None
    /\ comparison_list = <<>>
    /\ direction_touched = FALSE
    /\ run_status = "none"
    /\ last_event = "none"
    /\ ib_call = <<>>
    /\ ib_pc = "idle"
    /\ ib_i = 1
    /\ ib_connected = FALSE
    /\ ib_result = <<>>

\* One logged call: the arguments, the returned dict and the option dict as
\* the caller finds it after the call.
MetricsCall(option, underlying_price, k_as_param, result, option_after) ==
    [option |-> option, underlying_price |-> underlying_price,
     k_as_param |-> k_as_param, result |-> result, option_after |-> option_after]

\* Fault variant: the volatility of the previous call is kept between calls
\* and used in place of the argument's.
CallMetricsStateful ==
    /\ Len(metricsLog) < MaxCalls
    /\ \E inp \in MetricInputs, k \in KParams :
          LET seen == IF metricsLog = <<>> THEN inp.option
                      ELSE [inp.option EXCEPT
                               !.hv_20 = metricsLog[Len(metricsLog)].option.hv_20]
          IN  metricsLog' = Append(metricsLog,
                  MetricsCall(inp.option, inp.underlying_price, k,
                              calculate_metrics(seen, inp.underlying_price, k),
                              inp.option))
    /\ metricsCalls' = metricsCalls + 1
    /\ UNCHANGED <<selected_tickers, data_source, options_data, filters, sort_by,
                   sort_ascending, pc, all_options, df, message, loadCalls,
                   providerVars, sessionVars, ibVars>>

\* metrics = calculate_metrics(option, underlying_price, k_param): the body
\* reads its three arguments only and assigns to local names only.
CallMetrics ==
    /\ Len(metricsLog) < MaxCalls
    /\ \E inp \in MetricInputs, k \in KParams :
          metricsLog' = Append(metricsLog,
              MetricsCall(inp.option, inp.underlying_price, k,
                          calculate_metrics(inp.option, inp.underlying_price, k),
                          inp.option))
    /\ metricsCalls' = metricsCalls + 1
    /\ UNCHANGED <<selected_tickers, data_source, options_data, filters, sort_by,
                   sort_ascending, pc, all_options, df, message, loadCalls,
                   providerVars, sessionVars, ibVars>>

NextMetrics == CallMetrics

SpecMetrics == InitMetrics /\ [][NextMetrics]_vars

\* ------------------------------------------------------------------------
\* SpecGenerator: one call of generate_mock_data(tickers, underlying_price_map)
\* ------------------------------------------------------------------------
MaxPriceSteps == 100

\* Underlying prices of the price map, in cents: 0.20, 0.40, ... (prices
\* whose 0.85-fold is a whole number of cents).
MockPrices == {20 * i : i \in 1..MaxPriceSteps}

\* Volatilities of the price map, in thousandths.
MockVolatilities == {0, HV_DEFAULT, 300}

InitGenerator ==
    /\ selected_tickers \in {<<t>> : t \in AvailableTickers}
    /\ data_source = "mock"
    /\ filters \in {CHOOSE f \in FilterChoices : f.k_param = 10 /\ f.min_yield = 50}
    /\ sort_by = "Premium Yield %"
    /\ sort_ascending = FALSE
    /\ pc = "idle"
    /\ options_data = <<>>
    /\ all_options = <<>>
    /\ df = <<>>
    /\ message = "none"
    /\ loadCalls = 0
    /\ metricsCalls = 0
    /\ ppc = "mock_generate"
    /\ method = "mock"
    /\ idx = 1
    /\ \E p \in MockPrices, h \in MockVolatilities :
          price_map = <<[ticker |-> selected_tickers[1], price |-> p, hv_20 |-> h]>>
    /\ calls = <<>>
    /\ metricsLog = <<>>
    /\ set_source_log = <<>>
    /\ selected_option = <<>>
    /\ selected_option_index = None
    /\ comparison_list = <<>>
    /\ direction_touched = FALSE
    /\ run_status = "none"
    /\ last_event = "none"
    /\ ib_call = <<>>
    /\ ib_pc = "idle"
    /\ ib_i = 1
    /\ ib_connected = FALSE
    /\ ib_result = <<>>

NextGenerator ==
    \/ MockGenerateStep
    \/ MockReturn

SpecGenerator == InitGenerator /\ [][NextGenerator]_vars

\* ------------------------------------------------------------------------
\* SpecSession: one browser session of main.py. Every user event starts a
\* script run; an action is the event's callback followed by the whole run
\* (and by the second run where the code calls st.rerun()).
\* ------------------------------------------------------------------------
\* The cached result of load_data for the session: one ticker whose chain
\* has three PUT rows.
SessionMap ==
    <<Snapshot("AAPL", 1000, 300, OptionsList(SubSeq(YahooRows, 1, 3), 1000))>>

\* Elements of a list.
Elems(l) == {l[i] : i \in 1..Len(l)}

\* sorted(current_list)
RECURSIVE SortedList(_)
SortedList(l) ==
    IF l = <<>> THEN <<>>
    ELSE LET m == MinOf(Elems(l))
             k == CHOOSE i \in 1..Len(l) : l[i] = m
         IN  <<m>> \o SortedList(SubSeq(l, 1, k - 1) \o SubSeq(l, k + 1, Len(l)))

\* list.remove(x): removes the first occurrence.
ListRemove(l, x) ==
    LET k == CHOOSE i \in 1..Len(l) : l[i] = x /\ \A j \in 1..(i - 1) : l[j] # x
    IN  SubSeq(l, 1, k - 1) \o SubSeq(l, k + 1, Len(l))

\* df.iloc[i] succeeds: i is a row position of the table (0-based).
ValidPosition(i, table) == i # None /\ i >= 0 /\ i < Len(table)

\* df.iloc[i] for every i of the list raises no IndexError.
AllValid(list, table) == \A i \in Elems(list) : ValidPosition(i, table)

\* Fault variant: the checkbox keeps its state when the sort field changes.
DirectionCheckboxSticky(new_sort_by, old_sort_by, state) == state

\* st.checkbox("Ordinamento crescente", value=(sort_by == 'AS')) has no key:
\* its identity includes the default value, so it is a new widget showing
\* the default when the default changes and keeps its state otherwise.
DirectionCheckbox(new_sort_by, old_sort_by, state) ==
    IF (new_sort_by = "AS") # (old_sort_by = "AS") THEN new_sort_by = "AS"
    ELSE state

\* handle_details_selection: the index of the row whose 'Dettagli' was set.
handle_details_selection(index, edit) ==
    IF edit.column = "Dettagli" /\ edit.value THEN edit.row ELSE index

\* handle_comparison_selection: guarded append / remove, then sorted().
handle_comparison_selection(list, edit) ==
    LET is_checked == edit.column = "Confronta" /\ edit.value
        is_unchecked == edit.column = "Confronta" /\ ~edit.value
    IN  SortedList(IF is_checked /\ edit.row \notin Elems(list)
                   THEN Append(list, edit.row)
                   ELSE IF is_unchecked /\ edit.row \in Elems(list)
                   THEN ListRemove(list, edit.row)
                   ELSE list)

\* Fault variant: the button appends without looking at the list.
add_to_comparison_unguarded(list, index) == Append(list, index)

\* "Aggiungi al Confronto": append selected_option_index if not in the list.
add_to_comparison(list, index) ==
    IF index \notin Elems(list) THEN Append(list, index) ELSE list

\* Session state and outcome at the end of a script run.
RunResult(table, option, index, list, status) ==
    [df |-> table, selected_option |-> option, selected_option_index |-> index,
     comparison_list |-> list, run_status |-> status]

\* Lines 241-242: the selected row is refreshed only when the index is a
\* position of the new table; otherwise the stored row is kept.
RefreshSelected(table, option, index) ==
    IF index # None /\ index < Len(table) THEN <<table[index + 1]>> ELSE option

\* The tables line 165 can build from the session's map, tabulated for every
\* position of the sidebar widgets; none when the run stops at line 163.
TableCache ==
    [f \in FilterChoices |-> [by \in SortFields |-> [ascending \in BOOLEAN |->
        IF ScreenAll(SessionMap, f) = <<>> THEN {}
        ELSE SortValues(ScreenAll(SessionMap, f), by, ascending)]]]

Tables(f, by, ascending) == TableCache[f][by][ascending]

\* A script run in which no button reports a click.
RunPlain(f, by, ascending, option, index, list) ==
    IF Tables(f, by, ascending) = {}
    THEN {RunResult(<<>>, option, index, list, "stopped")}
    ELSE {LET opt == RefreshSelected(table, option, index)
          IN  IF ~AllValid(list, table)
              THEN RunResult(table, opt, index, list, "error_tab1")
              ELSE RunResult(table, opt, index, list, "rendered") :
          table \in Tables(f, by, ascending)}

\* A script run in which the button `click` reports a click. The buttons
\* of tab 2 are reached after line 249, those of tab 3 after line 350;
\* "refresh", "clear" and "remove" end with st.rerun().
RunClick(f, by, ascending, option, index, list, click) ==
    IF Tables(f, by, ascending) = {}
    THEN {RunResult(<<>>, option, index, list, "stopped")}
    ELSE UNION {
        LET opt == RefreshSelected(table, option, index)
        IN  IF ~AllValid(list, table)
            THEN {RunResult(table, opt, index, list, "error_tab1")}
            ELSE IF click.kind = "refresh" /\ opt # <<>>
            THEN RunPlain(f, by, ascending, <<>>, None, list)
            ELSE LET list1 == IF click.kind = "add" /\ opt # <<>>
                              THEN add_to_comparison(list, index) ELSE list
                 IN  IF list1 = <<>>
                     THEN {RunResult(table, opt, index, list1, "rendered")}
                     ELSE IF ~AllValid(list1, table)
                     THEN {RunResult(table, opt, index, list1, "error_tab3")}
                     ELSE IF click.kind = "clear"
                     THEN RunPlain(f, by, ascending, opt, index, <<>>)
                     ELSE IF click.kind = "remove" /\ click.row \in Elems(list1)
                     THEN RunPlain(f, by, ascending, opt, index,
                                   ListRemove(list1, click.row))
                     ELSE {RunResult(table, opt, index, list1, "rendered")} :
        table \in Tables(f, by, ascending)}

\* The session before the first script run: widget defaults (lines 121-128)
\* and the session_state defaults (lines 26-31).
InitSession ==
    /\ selected_tickers = <<"AAPL">>
    /\ data_source = "real"
    /\ filters = [min_yield |-> 50, max_dte |-> 35, max_delta |-> 400, k_param |-> 10]
    /\ sort_by = "Premium Yield %"
    /\ sort_ascending = (sort_by = "AS")
    /\ pc = "guard_selection"
    /\ options_data = SessionMap
    /\ all_options = <<>>
    /\ df = <<>>
    /\ message = "none"
    /\ loadCalls = 0
    /\ metricsCalls = 0
    /\ ppc = "idle"
    /\ method = "none"
    /\ idx = 1
    /\ price_map = <<>>
    /\ calls = <<>>
    /\ metricsLog = <<>>
    /\ set_source_log = <<>>
    /\ selected_option = <<>>
    /\ selected_option_index = None
    /\ comparison_list = <<>>
    /\ direction_touched = FALSE
    /\ run_status = "none"
    /\ last_event = "none"
    /\ ib_call = <<>>
    /\ ib_pc = "idle"
    /\ ib_i = 1
    /\ ib_connected = FALSE
    /\ ib_result = <<>>

\* The session state a run leaves behind.
Leaves(r, event) ==
    /\ df' = r.df
    /\ selected_option' = r.selected_option
    /\ selected_option_index' = r.selected_option_index
    /\ comparison_list' = r.comparison_list
    /\ run_status' = r.run_status
    /\ last_event' = event
    /\ UNCHANGED <<selected_tickers, data_source, options_data, pc, all_options,
                   message, loadCalls, metricsCalls, providerVars, metricsLog,
                   ibVars>>

\* The page is opened: first script run.
FirstRun ==
    /\ run_status = "none"
    /\ \E r \in RunPlain(filters, sort_by, sort_ascending, selected_option,
                         selected_option_index, comparison_list) :
          Leaves(r, "open")
    /\ UNCHANGED <<filters, sort_by, sort_ascending, direction_touched>>

\* The table of the last run is on the page (st.data_editor, line 191).
TableShown == run_status \in {"rendered", "error_tab1", "error_tab3"}

\* The user moves the filter sliders.
ChangeFilters ==
    /\ run_status # "none"
    /\ \E f \in FilterChoices \ {filters} :
          /\ filters' = f
          /\ \E r \in RunPlain(f, sort_by, sort_ascending, selected_option,
                               selected_option_index, comparison_list) :
                Leaves(r, "filters")
    /\ UNCHANGED <<sort_by, sort_ascending, direction_touched>>

\* The user picks another sort field in the selectbox.
ChangeSortField ==
    /\ run_status # "none"
    /\ \E by \in SortFields \ {sort_by} :
          /\ sort_by' = by
          /\ sort_ascending' = DirectionCheckbox(by, sort_by, sort_ascending)
          /\ \E r \in RunPlain(filters, by, sort_ascending', selected_option,
                               selected_option_index, comparison_list) :
                Leaves(r, "sort_field")
    /\ UNCHANGED <<filters, direction_touched>>

\* The user clicks the checkbox "Ordinamento crescente".
ToggleDirection ==
    /\ run_status # "none"
    /\ sort_ascending' = ~sort_ascending
    /\ direction_touched' = TRUE
    /\ \E r \in RunPlain(filters, sort_by, sort_ascending', selected_option,
                         selected_option_index, comparison_list) :
          Leaves(r, "direction")
    /\ UNCHANGED <<filters, sort_by>>

\* The user edits one cell of the table: update_table_state runs, then the
\* script.
EditTable ==
    /\ TableShown
    /\ \E row \in 0..(Len(df) - 1), column \in {"Dettagli", "Confronta"},
          value \in BOOLEAN :
          LET edit == [row |-> row, column |-> column, value |-> value]
          IN  /\ column = "Dettagli" => value
              /\ \E r \in RunPlain(filters, sort_by, sort_ascending, selected_option,
                                   handle_details_selection(selected_option_index, edit),
                                   handle_comparison_selection(comparison_list, edit)) :
                    Leaves(r, IF column = "Dettagli" THEN "details"
                              ELSE IF value THEN "check" ELSE "uncheck")
    /\ UNCHANGED <<filters, sort_by, sort_ascending, direction_touched>>

\* The buttons of the detail tab are on the page.
DetailButtonsShown ==
    run_status \in {"rendered", "error_tab3"} /\ selected_option # <<>>

\* "Aggiorna Selezione" (lines 268-271).
ClickRefreshSelection ==
    /\ DetailButtonsShown
    /\ \E r \in RunClick(filters, sort_by, sort_ascending, selected_option,
                         selected_option_index, comparison_list,
                         [kind |-> "refresh", row |-> None]) :
          Leaves(r, "refresh")
    /\ UNCHANGED <<filters, sort_by, sort_ascending, direction_touched>>

\* "Aggiungi al Confronto" (lines 273-278).
ClickAddToComparison ==
    /\ DetailButtonsShown
    /\ \E r \in RunClick(filters, sort_by, sort_ascending, selected_option,
                         selected_option_index, comparison_list,
                         [kind |-> "add", row |-> None]) :
          Leaves(r, "add")
    /\ UNCHANGED <<filters, sort_by, sort_ascending, direction_touched>>

\* The buttons of the comparison tab are on the page.
ComparisonButtonsShown == run_status = "rendered" /\ comparison_list # <<>>

\* "Svuota Confronto" (lines 357-359).
ClickClearComparison ==
    /\ ComparisonButtonsShown
    /\ \E r \in RunClick(filters, sort_by, sort_ascending, selected_option,
                         selected_option_index, comparison_list,
                         [kind |-> "clear", row |-> None]) :
          Leaves(r, "clear")
    /\ UNCHANGED <<filters, sort_by, sort_ascending, direction_touched>>

\* The remove button of one row of the comparison (lines 369-371).
ClickRemove ==
    /\ ComparisonButtonsShown
    /\ \E row \in Elems(comparison_list) :
          \E r \in RunClick(filters, sort_by, sort_ascending, selected_option,
                            selected_option_index, comparison_list,
                            [kind |-> "remove", row |-> row]) :
             Leaves(r, "remove")
    /\ UNCHANGED <<filters, sort_by, sort_ascending, direction_touched>>

NextSession ==
    \/ FirstRun
    \/ ChangeFilters
    \/ ChangeSortField
    \/ ToggleDirection
    \/ EditTable
    \/ ClickRefreshSelection
    \/ ClickAddToComparison
    \/ ClickClearComparison
    \/ ClickRemove

SpecSession == InitSession /\ [][NextSession]_vars

\* ------------------------------------------------------------------------
\* SpecIbClient: one call of get_ib_stock_data(ticker) or
\* get_ib_options_data(ticker), request by request, with the connected
\* flag of the IBClient the call creates.
\* ------------------------------------------------------------------------
InitIbClient ==
    /\ selected_tickers \in {<<t>> : t \in AvailableTickers}
    /\ data_source = "ib"
    /\ filters \in {CHOOSE f \in FilterChoices : f.k_param = 10 /\ f.min_yield = 50}
    /\ sort_by = "Premium Yield %"
    /\ sort_ascending = FALSE
    /\ pc = "guard_selection"
    /\ options_data = <<>>
    /\ all_options = <<>>
    /\ df = <<>>
    /\ message = "none"
    /\ loadCalls = 0
    /\ metricsCalls = 0
    /\ ppc = "idle"
    /\ method = "none"
    /\ idx = 1
    /\ price_map = <<>>
    /\ calls = <<>>
    /\ metricsLog = <<>>
    /\ set_source_log = <<>>
    /\ selected_option = <<>>
    /\ selected_option_index = None
    /\ comparison_list = <<>>
    /\ direction_touched = FALSE
    /\ run_status = "none"
    /\ last_event = "none"
    /\ ib_call \in {[fn |-> "stock", input |-> b] : b \in IBStockInputs} \cup
                   {[fn |-> "options", input |-> b] : b \in IBChainInputs}
    /\ ib_pc = "connect"
    /\ ib_i = 1
    /\ ib_connected = FALSE
    /\ ib_result = <<>>

\* Whether a request raises: a broker answer with raises = TRUE fails at one
\* of the requests, at the latest at the last one.
RequestRaises(input, last) ==
    IF ~input.raises THEN {FALSE} ELSE IF last THEN {TRUE} ELSE BOOLEAN

\* The value both functions return when connect() fails or a request raises.
IbFailure(fn) == IF fn = "stock" THEN <<None, None>> ELSE <<>>

\* except Exception: st.error(...); return None, None / pd.DataFrame()
\* (lines 79-81 and 141-143): the client is not disconnected.
IbExcept ==
    /\ ib_result' = IbFailure(ib_call.fn)
    /\ ib_pc' = "returned"
    /\ UNCHANGED <<ib_call, ib_i, ib_connected>>

\* ib_client = IBClient(); if not ib_client.connect(): return ...
IbConnect ==
    /\ ib_pc = "connect"
    /\ IF ib_call.input.connects
       THEN /\ ib_connected' = TRUE
            /\ ib_pc' = "qualify"
            /\ UNCHANGED ib_result
       ELSE /\ ib_connected' = FALSE
            /\ ib_pc' = "returned"
            /\ ib_result' = IbFailure(ib_call.fn)
    /\ UNCHANGED <<ib_call, ib_i>>
    /\ UNCHANGED <<selected_tickers, data_source, options_data, mainVars,
                   providerVars, metricsLog, sessionVars>>

\* ib_client.ib.qualifyContracts(stock) (lines 51 and 93)
IbQualify ==
    /\ ib_pc = "qualify"
    /\ \E raised \in RequestRaises(ib_call.input, FALSE) :
          IF raised THEN IbExcept
          ELSE /\ ib_pc' = IF ib_call.fn = "stock" THEN "market" ELSE "chain_params"
               /\ UNCHANGED <<ib_call, ib_i, ib_connected, ib_result>>
    /\ UNCHANGED <<selected_tickers, data_source, options_data, mainVars,
                   providerVars, metricsLog, sessionVars>>

\* reqMktData and the choice of current_price (lines 54-59)
IbMarketData ==
    /\ ib_pc = "market"
    /\ \E raised \in RequestRaises(ib_call.input, FALSE) :
          IF raised THEN IbExcept
          ELSE /\ ib_pc' = "history"
               /\ UNCHANGED <<ib_call, ib_i, ib_connected, ib_result>>
    /\ UNCHANGED <<selected_tickers, data_source, options_data, mainVars,
                   providerVars, metricsLog, sessionVars>>

\* reqHistoricalData and the rolling volatility (lines 62-74)
IbHistory ==
    /\ ib_pc = "history"
    /\ \E raised \in RequestRaises(ib_call.input, TRUE) :
          IF raised THEN IbExcept
          ELSE /\ ib_pc' = "disconnect"
               /\ ib_result' = get_ib_stock_data(ib_call.input)
               /\ UNCHANGED <<ib_call, ib_i, ib_connected>>
    /\ UNCHANGED <<selected_tickers, data_source, options_data, mainVars,
                   providerVars, metricsLog, sessionVars>>

\* chains = reqSecDefOptParams(...); all_puts = [] (lines 96-98)
IbChainParams ==
    /\ ib_pc = "chain_params"
    /\ \E raised \in RequestRaises(ib_call.input, TRUE) :
          IF raised THEN IbExcept
          ELSE /\ ib_pc' = "contracts"
               /\ ib_i' = 1
               /\ ib_result' = <<>>
               /\ UNCHANGED <<ib_call, ib_connected>>
    /\ UNCHANGED <<selected_tickers, data_source, options_data, mainVars,
                   providerVars, metricsLog, sessionVars>>

\* One PUT contract of the loops at lines 100-136: the quote is appended to
\* all_puts or skipped; after the last one the loops are left.
IbContractStep ==
    /\ ib_pc = "contracts"
    /\ IF ib_i > Len(ib_call.input.quotes)
       THEN /\ ib_pc' = "disconnect"
            /\ UNCHANGED <<ib_i, ib_result>>
       ELSE /\ ib_result' = IF IBQuoteKept(ib_call.input.quotes[ib_i])
                            THEN Append(ib_result, IBPutData(ib_call.input.quotes[ib_i]))
                            ELSE ib_result
            /\ ib_i' = ib_i + 1
            /\ UNCHANGED ib_pc
    /\ UNCHANGED <<ib_call, ib_connected>>
    /\ UNCHANGED <<selected_tickers, data_source, options_data, mainVars,
                   providerVars, metricsLog, sessionVars>>

\* ib_client.disconnect(); return ... (lines 76-77 and 138-139)
IbDisconnect ==
    /\ ib_pc = "disconnect"
    /\ ib_connected' = FALSE
    /\ ib_pc' = "returned"
    /\ UNCHANGED <<ib_call, ib_i, ib_result>>
    /\ UNCHANGED <<selected_tickers, data_source, options_data, mainVars,
                   providerVars, metricsLog, sessionVars>>

NextIbClient ==
    \/ IbConnect
    \/ IbQualify
    \/ IbMarketData
    \/ IbHistory
    \/ IbChainParams
    \/ IbContractStep
    \/ IbDisconnect

SpecIbClient == InitIbClient /\ [][NextIbClient]_vars

\* ------------------------------------------------------------------------
\* SpecSource: a DataProvider is constructed, set_data_source is called any
\* number of times, then get_options_data runs for at most one ticker.
\* ------------------------------------------------------------------------
\* Values handed to the constructor and to set_data_source.
SourceArgs == SourceModes \cup {"csv"}

\* Fault variant: the new source is stored without validation.
set_data_source_unchecked(current, source) ==
    [data_source |-> source, raised |-> FALSE]

\* set_data_source: ValueError for an unsupported value, else the assignment.
set_data_source(current, source) ==
    IF source \notin {"real", "ib", "mock"}
    THEN [data_source |-> current, raised |-> TRUE]
    ELSE [data_source |-> source, raised |-> FALSE]

InitSource ==
    /\ InitProvider
    /\ Len(selected_tickers) <= 1

\* provider.set_data_source(source), before get_options_data is called;
\* set_source_log keeps the last call.
SetDataSource ==
    /\ ppc = "dispatch"
    /\ \E source \in SourceArgs :
          LET out == set_data_source(data_source, source)
          IN  /\ data_source' = out.data_source
              /\ set_source_log' = <<[source |-> source, before |-> data_source,
                                      after |-> out.data_source,
                                      raised |-> out.raised]>>
    /\ UNCHANGED <<selected_tickers, options_data, mainVars, metricsLog,
                   sessionVars, ibVars, ppc, method, idx, price_map, calls>>

NextSource ==
    \/ SetDataSource
    \/ Dispatch
    \/ IbSetup
    \/ RealLoopStep
    \/ IbLoopStep
    \/ LoopReturn
    \/ MockPriceStep
    \/ MockGenerateCall
    \/ MockGenerateStep
    \/ MockReturn

SpecSource == InitSource /\ [][NextSource]_vars

\* ------------------------------------------------------------------------
\* Helpers of the properties
\* ------------------------------------------------------------------------
\* Keys every option record of the normalized shape must carry.
RequiredOptionKeys ==
    {"strike", "premium", "iv", "delta", "gamma", "theta", "dte", "volume",
     "open_interest", "bid", "ask", "last"}

\* Tickers that have an entry in the map.
MapTickers(map) == {map[i].ticker : i \in 1..Len(map)}

\* All option records of the map.
MapOptions(map) ==
    UNION {{map[i].options[j] : j \in 1..Len(map[i].options)} : i \in 1..Len(map)}

\* Positions of the log entries of one provider for one ticker and kind.
CallsOf(provider, kind, ticker) ==
    {i \in 1..Len(calls) : /\ calls[i].provider = provider
                           /\ calls[i].kind = kind
                           /\ calls[i].ticker = ticker}

\* Some provider yielded this kind of data for the ticker.
Yielded(kind, ticker) ==
    \E i \in 1..Len(calls) :
        calls[i].kind = kind /\ calls[i].ticker = ticker /\ calls[i].yielded

\* Both providers were asked for this kind of data and neither yielded it.
BothYieldedNothing(kind, ticker) ==
    /\ \E i \in CallsOf("ib", kind, ticker) : ~calls[i].yielded
    /\ \E i \in CallsOf("yf", kind, ticker) : ~calls[i].yielded

\* Return samples behind the volatility stored for the ticker: those of the
\* last stock call that yielded data.
SamplesBehind(ticker) ==
    LET hits == {i \in 1..Len(calls) : /\ calls[i].kind = "stock"
                                       /\ calls[i].ticker = ticker
                                       /\ calls[i].yielded}
        last == CHOOSE i \in hits : \A j \in hits : j <= i
    IN  calls[last].samples

\* Position of a row in all_options (rows are pairwise different).
PositionIn(rows, row) == CHOOSE i \in 1..Len(rows) : rows[i] = row

\* ------------------------------------------------------------------------
\* Properties of the script run (Spec)
\* ------------------------------------------------------------------------
\* C1: every row kept by the screening loop, and so every row of the sorted
\* table, passes the three gates at once: |delta| <= max_delta, premium
\* yield >= min_yield and DTE <= max_dte.
C1_RowsPassAllGates ==
    \A rows \in {all_options, df} : \A i \in 1..Len(rows) :
        /\ Abs(rows[i]["delta"]) <= filters.max_delta
        /\ rows[i]["Premium Yield %"] >= filters.min_yield
        /\ rows[i]["DTE"] <= filters.max_dte

\* C1 witness: a table was rendered although some option of the map was
\* rejected by a gate.
C1_Witness ==
    /\ pc = "render"
    /\ Len(df) >= 1
    /\ metricsCalls > Len(df)

\* C2: the rendered table is a rearrangement of the surviving rows, in
\* non-decreasing order of the sort column when sort_ascending is set and
\* in non-increasing order when it is not.
C2_SortedPermutation ==
    pc = "render" =>
        /\ Len(df) = Len(all_options)
        /\ \E p \in Permutations(1..Len(df)) :
              \A i \in 1..Len(df) : df[i] = all_options[p[i]]
        /\ \A i, j \in 1..Len(df) :
              i < j => IF sort_ascending THEN df[i][sort_by] <= df[j][sort_by]
                       ELSE df[i][sort_by] >= df[j][sort_by]

\* C2 witness: a descending table whose first and last row differ in the
\* sort column and which is not in the order of enumeration.
C2_Witness ==
    /\ pc = "render"
    /\ ~sort_ascending
    /\ Len(df) >= 2
    /\ df[1][sort_by] > df[Len(df)][sort_by]
    /\ df # all_options

\* C3 (as claimed): rows with equal sort value keep the relative order in
\* which the screening loop enumerated them.
C3_StableSort ==
    pc = "render" =>
        \A i, j \in 1..Len(df) :
            (i < j /\ df[i][sort_by] = df[j][sort_by])
                => PositionIn(all_options, df[i]) < PositionIn(all_options, df[j])

\* C9: with an empty ticker selection nothing is loaded, calculate_metrics
\* is never called, no table is built, and once the guard has run the run
\* has stopped with the prompt to select a ticker.
C9_EmptySelectionStops ==
    selected_tickers = <<>> /\ pc # "idle" =>
        /\ loadCalls = 0
        /\ metricsCalls = 0
        /\ options_data = <<>> /\ all_options = <<>> /\ df = <<>>
        /\ pc \in {"guard_selection", "stopped"}
        /\ pc = "stopped" => message = "select_ticker"

\* C9 witness: the run stopped on the empty selection.
C9_Witness ==
    selected_tickers = <<>> /\ pc = "stopped" /\ message = "select_ticker"

\* C10: a run that stops on an empty outcome shows "no data" exactly when
\* the provider map is empty and "no candidates" exactly when the map is
\* not empty and no row survived; in both cases no table was sorted.
C10_EmptyOutcomeMessages ==
    /\ message = "no_data" =>
          pc = "stopped" /\ options_data = <<>> /\ loadCalls = 1 /\ df = <<>>
    /\ message = "no_candidates" =>
          /\ pc = "stopped" /\ options_data # <<>>
          /\ all_options = <<>> /\ df = <<>>
    /\ (pc = "stopped" /\ selected_tickers # <<>>) =>
          /\ message \in {"no_data", "no_candidates"}
          /\ message = "no_data" <=> options_data = <<>>
    /\ pc \in {"sort", "render"} => message = "none" /\ all_options # <<>>

\* C10 witness: data was available, every option was computed and none
\* passed the filters.
C10_Witness ==
    /\ pc = "stopped"
    /\ message = "no_candidates"
    /\ metricsCalls >= 2

\* C10, second witness: the provider map came back empty.
C10_WitnessNoData ==
    pc = "stopped" /\ message = "no_data" /\ Len(selected_tickers) = 2

\* ------------------------------------------------------------------------
\* Properties of the Data Provider (SpecProvider)
\* ------------------------------------------------------------------------
\* A ticker's fetch succeeded: a provider yielded its price and volatility
\* and, outside mock mode, a provider yielded a non-empty option chain.
FetchSucceeded(ticker) ==
    /\ Yielded("stock", ticker)
    /\ data_source # "mock" => Yielded("options", ticker)

\* C4: in the three source modes get_options_data never ends in an
\* exception, and when it returns every ticker whose fetch succeeded is in
\* the map, wherever the failing tickers stand in the list.
C4_FailuresSkipOnlyTheirTicker ==
    data_source \in SourceModes =>
        /\ ppc # "raised"
        /\ ppc = "done" =>
              \A i \in 1..Len(selected_tickers) :
                  FetchSucceeded(selected_tickers[i])
                      => selected_tickers[i] \in MapTickers(options_data)

\* C4 witness: the first ticker failed on a provider error and was
\* skipped, the second one is in the returned map.
C4_Witness ==
    /\ ppc = "done"
    /\ Len(selected_tickers) = 2
    /\ selected_tickers[1] \notin MapTickers(options_data)
    /\ selected_tickers[2] \in MapTickers(options_data)
    /\ \E i \in CallsOf("yf", "options", selected_tickers[1]) : ~calls[i].yielded

\* C5 (as claimed): every snapshot of the map has a price and a volatility
\* that are not null and options that carry every required key with a
\* value that is not null.
C5_SnapshotsFullyPopulated ==
    \A i \in 1..Len(options_data) :
        /\ ~IsNull(options_data[i].underlying_price)
        /\ ~IsNull(options_data[i].hv_20)
        /\ \A j \in 1..Len(options_data[i].options) :
              /\ RequiredOptionKeys \subseteq DOMAIN options_data[i].options[j]
              /\ \A k \in RequiredOptionKeys : ~IsNull(options_data[i].options[j][k])

\* C6 (as claimed): every option record of the map, each of which the
\* screening loop hands to calculate_metrics, has strike > 0 and premium > 0.
C6_PositiveStrikeAndPremium ==
    \A o \in MapOptions(options_data) : o.strike > 0 /\ o.premium > 0

\* C7 (as claimed): the volatility of a snapshot is never NaN, and it is the
\* fallback constant whenever it rests on fewer than 20 return samples.
C7_VolatilityNeverNaN ==
    \A i \in 1..Len(options_data) :
        /\ options_data[i].hv_20 # NaN
        /\ SamplesBehind(options_data[i].ticker) < 20
              => options_data[i].hv_20 = HV_DEFAULT

MetricKeys ==
    {"Premium Yield %", "AS", "POP %", "Moneyness %", "Expected PnL",
     "Return on Risk %", "Breakeven", "Theta Daily", "Strike", "DTE", "Premium", "IV"}

\* C11: every call returns the full dict; with strike <= premium its
\* 'Return on Risk %' is +infinity, with strike > premium it is the finite,
\* non-negative premium / (strike - premium) * 100 (to 2 decimals).
C11_ReturnOnRiskInfinityWhenDegenerate ==
    \A i \in 1..Len(metricsLog) :
        LET o == metricsLog[i].option
            r == metricsLog[i].result
        IN  /\ DOMAIN r = MetricKeys
            /\ o.strike <= o.premium => r["Return on Risk %"] = Infinity
            /\ o.strike > o.premium =>
                  /\ r["Return on Risk %"] = RoundDiv(o.premium * 10000, o.strike - o.premium)
                  /\ r["Return on Risk %"] >= 0
                  /\ r["Return on Risk %"] < Infinity

\* C11 witness: calls with strike = premium, with strike < premium and with
\* strike > premium have all returned.
C11_Witness ==
    /\ \E i \in 1..Len(metricsLog) :
          metricsLog[i].option.strike = metricsLog[i].option.premium
    /\ \E i \in 1..Len(metricsLog) :
          metricsLog[i].option.strike < metricsLog[i].option.premium
    /\ \E i \in 1..Len(metricsLog) :
          /\ metricsLog[i].option.strike > metricsLog[i].option.premium
          /\ metricsLog[i].result["Return on Risk %"] > 0

\* C12: the assignment score is never negative, and it is 0 whenever
\* hv_20 is 0, whatever iv, delta, moneyness and k are.
C12_AssignmentScoreNonNegative ==
    \A i \in 1..Len(metricsLog) :
        /\ metricsLog[i].result["AS"] >= 0
        /\ metricsLog[i].option.hv_20 = 0 => metricsLog[i].result["AS"] = 0

\* C12 witness: a call without volatility history for a contract with
\* iv > 0 and |delta| = 1, and a call that returned a positive score.
C12_Witness ==
    /\ \E i \in 1..Len(metricsLog) :
          /\ metricsLog[i].option.hv_20 = 0
          /\ metricsLog[i].option.iv > 0
          /\ metricsLog[i].option.delta = -1000
    /\ \E i \in 1..Len(metricsLog) : metricsLog[i].result["AS"] > 0

\* C13: 'POP %' lies in [0, 100]; it is (|delta| + gamma * expected_move *
\* 0.5) * 100 when that is at most 100 and exactly 100 otherwise.
C13_PopClamped ==
    \A i \in 1..Len(metricsLog) :
        LET o == metricsLog[i].option
            raw == pop_before_clamp(o.delta, o.gamma,
                       expected_move(metricsLog[i].underlying_price, o.iv, o.dte))
            shown == metricsLog[i].result["POP %"]
        IN  /\ shown >= 0 /\ shown <= 10000
            /\ shown = IF raw <= 10000 THEN raw ELSE 10000

\* C13 witness: a call whose unclamped value exceeds 100 % returned 100,
\* and another call returned a value strictly between 0 and 100.
C13_Witness ==
    /\ \E i \in 1..Len(metricsLog) :
          LET o == metricsLog[i].option
          IN  /\ pop_before_clamp(o.delta, o.gamma,
                     expected_move(metricsLog[i].underlying_price, o.iv, o.dte)) > 10000
              /\ metricsLog[i].result["POP %"] = 10000
    /\ \E i \in 1..Len(metricsLog) :
          metricsLog[i].result["POP %"] \in 1..9999

C14_ProviderDataReadOnly ==
    \A o \in MapOptions(options_data) : DOMAIN o = RequiredOptionKeys

\* C15 (as claimed): the yield gate and the sort work on the unrounded
\* values: every kept row has premium / strike * 100 >= min_yield, and in a
\* table sorted by yield two rows whose unrounded yields differ stand in the
\* order of their unrounded yields.
C15_UnroundedValuesDecide ==
    /\ \A i \in 1..Len(all_options) :
          all_options[i]["premium"] * 10000 >= filters.min_yield * all_options[i]["strike"]
    /\ (pc = "render" /\ sort_by = "Premium Yield %") =>
          \A i, j \in 1..Len(df) :
              LET yi == df[i]["premium"] * df[j]["strike"]
                  yj == df[j]["premium"] * df[i]["strike"]
              IN  (i < j /\ yi # yj) => IF sort_ascending THEN yi < yj ELSE yi > yj

\* ------------------------------------------------------------------------
\* Properties of the Data Provider (SpecProvider), continued
\* ------------------------------------------------------------------------
\* C17 (as claimed): every option record of the returned map, whatever the
\* source, has a delta between -1 and 0.
C17_PutDeltaSign ==
    \A o \in MapOptions(options_data) : o.delta >= -1000 /\ o.delta <= 0

\* C18 (as claimed): in mock mode every snapshot of the returned map carries
\* a provenance field that marks it as synthetic.
C18_MockSnapshotsTagged ==
    data_source = "mock" =>
        \A i \in 1..Len(options_data) :
            /\ "data_source" \in DOMAIN options_data[i]
            /\ options_data[i]["data_source"] = "mock"

\* ------------------------------------------------------------------------
\* Properties of the synthetic generator (SpecGenerator)
\* ------------------------------------------------------------------------
\* C19: for a price > 0 the ladder of a generated snapshot is not empty,
\* starts at 0.85 x price, rises by exactly 1 from one option to the next
\* and stays between 0.85 x price and 1.02 x price.
C19_StrikeLadder ==
    \A i \in 1..Len(options_data) :
        LET p == options_data[i].underlying_price
            opts == options_data[i].options
        IN  p > 0 =>
              /\ Len(opts) >= 1
              /\ 100 * opts[1].strike = 85 * p
              /\ \A j \in 1..(Len(opts) - 1) : opts[j + 1].strike - opts[j].strike = 100
              /\ \A j \in 1..Len(opts) :
                    85 * p <= 100 * opts[j].strike /\ 100 * opts[j].strike <= 102 * p

\* C19 witness: the generator returned a snapshot with a ladder of at least
\* three strikes.
C19_Witness ==
    /\ ppc = "done"
    /\ Len(options_data) = 1
    /\ Len(options_data[1].options) >= 3

\* C20 (as claimed): every synthetic option has a DTE in [18, 40] and an iv
\* above the volatility of its ticker, and every value of [18, 40] is one
\* the DTE draw can return.
C20_DteClosedRangeIvAboveHv ==
    /\ \A i \in 1..Len(options_data) : \A j \in 1..Len(options_data[i].options) :
          /\ options_data[i].options[j].dte \in 18..40
          /\ options_data[i].options[j].iv > options_data[i].hv_20
    /\ \A d \in 18..40 : d \in MockDteValues

\* ------------------------------------------------------------------------
\* Properties of the Metrics Engine (SpecMetrics), continued
\* ------------------------------------------------------------------------
\* C21: 'Breakeven' is strike - premium, taken from the strike and the
\* premium of the option and not from a rounded metric.
C21_BreakevenIdentity ==
    \A i \in 1..Len(metricsLog) :
        /\ metricsLog[i].result["Breakeven"] =
              metricsLog[i].option.strike - metricsLog[i].option.premium
        /\ metricsLog[i].result["Breakeven"] + metricsLog[i].result["Premium"] =
              metricsLog[i].result["Strike"]

\* C21 witness: a call for a contract whose premium cannot be recovered from
\* its 2-decimal yield.
C21_Witness ==
    \E i \in 1..Len(metricsLog) :
        LET o == metricsLog[i].option
        IN  /\ RoundDiv(o.strike * metricsLog[i].result["Premium Yield %"], 10000) # o.premium
            /\ metricsLog[i].result["Breakeven"] = o.strike - o.premium

\* C22 (as claimed): of two calls that differ in k only, for a contract with
\* moneyness # 0, hv_20 > 0, iv > 0 and delta # 0, the one with the larger k
\* returns the strictly smaller assignment score.
C22_ScoreStrictlyDecreasingInK ==
    \A i, j \in 1..Len(metricsLog) :
        (/\ metricsLog[i].option = metricsLog[j].option
         /\ metricsLog[i].underlying_price = metricsLog[j].underlying_price
         /\ metricsLog[i].option.strike # metricsLog[i].underlying_price
         /\ metricsLog[i].option.hv_20 > 0
         /\ metricsLog[i].option.iv > 0
         /\ metricsLog[i].option.delta # 0
         /\ metricsLog[i].k_as_param < metricsLog[j].k_as_param)
            => metricsLog[i].result["AS"] > metricsLog[j].result["AS"]

\* ------------------------------------------------------------------------
\* Properties of the script run (Spec): completeness of the filter
\* ------------------------------------------------------------------------
\* The three gates of the screening loop, read off an option of the map.
PassesGates(option, f) ==
    /\ Abs(option.delta) <= f.max_delta
    /\ RoundDiv(option.premium * 10000, option.strike) >= f.min_yield
    /\ option.dte <= f.max_dte

\* (ticker, option) positions of the map whose option passes the gates.
PassingPairs ==
    {pr \in UNION {{<<i, j>> : j \in 1..Len(options_data[i].options)} :
                      i \in 1..Len(options_data)} :
        PassesGates(options_data[pr[1]].options[pr[2]], filters)}

\* Positions of the rows of a table that were built from a pair.
RowsOf(rows, pr) ==
    {k \in 1..Len(rows) :
        /\ rows[k]["Ticker"] = options_data[pr[1]].ticker
        /\ \A key \in RequiredOptionKeys :
              rows[k][key] = options_data[pr[1]].options[pr[2]][key]}

\* The screening loop has run.
Screened ==
    \/ pc \in {"guard_candidates", "sort", "render"}
    \/ pc = "stopped" /\ message = "no_candidates"

\* C24: after the screening loop the kept rows are as many as the pairs
\* that pass the gates and every such pair has exactly one row, in
\* all_options and in the sorted table.
C24_FilterCompleteNoDuplicates ==
    Screened =>
        /\ Len(all_options) = Cardinality(PassingPairs)
        /\ \A pr \in PassingPairs : Cardinality(RowsOf(all_options, pr)) = 1
        /\ pc = "render" =>
              /\ Len(df) = Cardinality(PassingPairs)
              /\ \A pr \in PassingPairs : Cardinality(RowsOf(df, pr)) = 1

\* C24 witness: a table of at least three rows from two tickers was
\* rendered while another option of the map was rejected.
C24_Witness ==
    /\ pc = "render"
    /\ Len(options_data) = 2
    /\ Len(df) >= 3
    /\ metricsCalls > Len(df)
    /\ \E i, j \in 1..Len(df) : df[i]["Ticker"] # df[j]["Ticker"]

\* C23: as long as the user has not clicked the direction checkbox, the
\* sort direction is ascending exactly when the sort field is AS, after any
\* sequence of sort-field changes.
C23_DefaultDirectionFollowsField ==
    ~direction_touched => (sort_ascending <=> sort_by = "AS")

\* C23 witness: the field was changed to AS by a user who never clicked the
\* checkbox, and the table came out ascending.
C23_Witness ==
    /\ ~direction_touched
    /\ last_event = "sort_field"
    /\ sort_by = "AS"
    /\ sort_ascending
    /\ run_status = "rendered"
    /\ Len(df) >= 2

\* C25: in every run that reads rows through comparison_list, every index
\* of the list is a row position of the run's table.
C25_ComparisonIndicesValid ==
    run_status \in {"rendered", "error_tab1", "error_tab3"} =>
        AllValid(comparison_list, df)

\* C26: when the detail tab shows a selected option, it is the row of the
\* run's table at selected_option_index.
C26_SelectedOptionIsCurrentRow ==
    (run_status \in {"rendered", "error_tab3"} /\ selected_option # <<>>) =>
        /\ ValidPosition(selected_option_index, df)
        /\ selected_option[1] = df[selected_option_index + 1]

\* C27: comparison_list holds no index twice and never holds None.
C27_ComparisonListDistinct ==
    /\ Distinct(comparison_list)
    /\ None \notin Elems(comparison_list)

\* C27 witness: "Aggiungi al Confronto" was clicked on a list that already
\* held another row, and the list of two rows was rendered.
C27_Witness ==
    /\ last_event = "add"
    /\ run_status = "rendered"
    /\ Len(comparison_list) = 2
    /\ selected_option_index \in Elems(comparison_list)

\* C28: no call of get_ib_stock_data / get_ib_options_data returns with
\* the connected flag of its client still true.
C28_DisconnectBeforeReturn ==
    ib_pc = "returned" => ~ib_connected

\* C29: set_data_source raises exactly for a value outside real / ib /
\* mock and then leaves data_source unchanged, otherwise it stores the
\* value; get_options_data on an unsupported data_source raises without
\* having fetched anything, and raises in no other case.
C29_SourceValidation ==
    /\ set_source_log # <<>> =>
          LET c == set_source_log[1]
          IN  /\ c.raised <=> c.source \notin SourceModes
              /\ c.raised => c.after = c.before
              /\ ~c.raised => c.after = c.source
              /\ data_source = c.after
    /\ (ppc # "dispatch" /\ data_source \notin SourceModes) =>
          /\ ppc = "raised"
          /\ calls = <<>>
          /\ price_map = <<>>
          /\ options_data = <<>>
    /\ ppc = "raised" => data_source \notin SourceModes

\* C29 witness: a provider constructed with an unsupported source refused
\* an unsupported set_data_source, and get_options_data then raised.
C29_Witness ==
    /\ set_source_log # <<>>
    /\ set_source_log[1].raised
    /\ set_source_log[1].before \notin SourceModes
    /\ data_source \notin SourceModes
    /\ selected_tickers # <<>>
    /\ ppc = "raised"

\* C29 witness of the accepting side: a supported value replaced the
\* constructor's unsupported one and the call went on to fetch data.
C29_WitnessAccepted ==
    /\ set_source_log # <<>>
    /\ ~set_source_log[1].raised
    /\ set_source_log[1].before \notin SourceModes
    /\ calls # <<>>

====
